---- MODULE Spec2Model ----
(***************************************************************************)
(* Ultimate Goalie: the per-frame simulation of GameCanvas.tsx (goalie     *)
(* control, shooter AI, puck physics, collision and outcome resolver) and  *)
(* the round manager of App.tsx that consumes its outcome.                 *)
(*                                                                         *)
(* Numbers.  The program computes in IEEE doubles.  Here every length,     *)
(* speed and RoundConfig scalar is an integer count of 1/SCALE canvas      *)
(* units, SCALE = 90, which makes every RoundConfig value of rounds 1..10  *)
(* exact (they are multiples of 1/9, 1/45 or 1/10).  Quotients that are    *)
(* not exact (normalising a direction, the sine, the stance lerp) are      *)
(* truncated toward zero.  Math.random() is a percentage drawn from        *)
(* RandSet; Date.now() is the variable now, advanced by FrameMs per frame. *)
(***************************************************************************)
EXTENDS Integers, Sequences, FiniteSets, TLC

SCALE == 9 * 10

\* A canvas length in model units.
U(n) == n * SCALE

----------------------------------------------------------------------------
(* Constants of GameCanvas.tsx (lines 36-42), in canvas units. *)
GOALIE_RADIUS == 20
PUCK_RADIUS == 6
CANVAS_WIDTH == 800
CANVAS_HEIGHT == 600
GOAL_TOP == 170
GOAL_BOTTOM == 430
GOAL_X == 40

NULL == "null"

Abs(a) == IF a < 0 THEN -a ELSE a

\* Division truncated toward zero, as the sign-symmetric float quotient rounds.
Quot(a, b) == IF a >= 0 THEN a \div b ELSE -((-a) \div b)

\* Math.max(lo, Math.min(hi, v))
Clamp(lo, hi, v) == IF v > hi THEN (IF hi < lo THEN lo ELSE hi) ELSE IF v < lo THEN lo ELSE v

\* Math.sqrt, rounded down to the model's grid.
RECURSIVE SqrtIter(_, _, _)
SqrtIter(n, lo, hi) ==
    IF lo >= hi THEN lo
    ELSE LET mid == (lo + hi + 1) \div 2
         IN  IF mid * mid <= n THEN SqrtIter(n, mid, hi) ELSE SqrtIter(n, lo, mid - 1)

Sqrt(n) == SqrtIter(n, 0, 46340)

----------------------------------------------------------------------------
(* App.tsx: the difficulty curve (roundConfig useMemo). *)

Rounds == 1..10
\* The rounds the canvas is played in: one without modifier, the magnet
\* round, and the power-up round, whose puck also curves.
PlayedRounds == {1, 5, 9}

\* ratio = (currentRound - 1) / 9, in 1/SCALE
Ratio(r) == ((r - 1) * SCALE) \div 9

BaseShotSpeed(r) == U(8) + Ratio(r) * 12

\* roundConfig with the power-up from round 9 on.
roundConfigPowerUpFrom9(r) ==
    LET ratio == Ratio(r)
        isSlapShot == (r = 4)
        shotSpeed == IF isSlapShot THEN (BaseShotSpeed(r) * 12) \div 10
                     ELSE BaseShotSpeed(r)
        curve == IF 2 * ratio > SCALE THEN (2 * ratio - SCALE) ELSE 0
    IN  [ roundNumber    |-> r,
          shooterSpeed   |-> U(2) + ratio * 4,
          shotSpeed      |-> shotSpeed,
          aiIntelligence |-> (2 * SCALE) \div 10 + (ratio * 8) \div 10,
          curveFactor    |-> IF r = 7 THEN (15 * SCALE) \div 10 ELSE curve,
          jitter         |-> (ratio * 8) \div 10,
          isSlapShot     |-> isSlapShot,
          hasPowerUp     |-> (r >= 9),
          hasMagnet      |-> (r = 5) ]

\* roundConfig without lines 83-85.
roundConfigNoHeavyCurve(r) ==
    LET ratio == Ratio(r)
        isSlapShot == (r = 4)
        shotSpeed == IF isSlapShot THEN (BaseShotSpeed(r) * 12) \div 10
                     ELSE BaseShotSpeed(r)
        curve == IF 2 * ratio > SCALE THEN (2 * ratio - SCALE) ELSE 0
    IN  [ roundNumber    |-> r,
          shooterSpeed   |-> U(2) + ratio * 4,
          shotSpeed      |-> shotSpeed,
          aiIntelligence |-> (2 * SCALE) \div 10 + (ratio * 8) \div 10,
          curveFactor    |-> curve,
          jitter         |-> (ratio * 8) \div 10,
          isSlapShot     |-> isSlapShot,
          hasPowerUp     |-> (r = 9),
          hasMagnet      |-> (r = 5) ]

roundConfig(r) ==
    LET ratio == Ratio(r)
        isSlapShot == (r = 4)
        shotSpeed == IF isSlapShot THEN (BaseShotSpeed(r) * 12) \div 10
                     ELSE BaseShotSpeed(r)
        curve == IF 2 * ratio > SCALE THEN (2 * ratio - SCALE) ELSE 0
    IN  [ roundNumber    |-> r,
          shooterSpeed   |-> U(2) + ratio * 4,
          shotSpeed      |-> shotSpeed,
          aiIntelligence |-> (2 * SCALE) \div 10 + (ratio * 8) \div 10,
          curveFactor    |-> IF r = 7 THEN (15 * SCALE) \div 10 ELSE curve,
          jitter         |-> (ratio * 8) \div 10,
          isSlapShot     |-> isSlapShot,
          hasPowerUp     |-> (r = 9),
          hasMagnet      |-> (r = 5) ]

----------------------------------------------------------------------------
(* Bounds of the model. *)

\* Milliseconds of Date.now() between two animation frames.
FrameMs == 20
\* Date.now() when a round is reset.
Epoch0 == 1000
\* update() is not stepped beyond this many frames of one round.
MaxFrames == 300
\* Math.random() results of one round that differ from the median 0.5.
MaxOddDraws == 1
\* Keyboard and touch events delivered in one round.
MaxInputs == 2
\* The player acts in the first InputFrames frames of a round and again after
\* its outcome; held keys and a drag last through the round.
InputFrames == 2

\* Math.random(), in percent.
RandSet == {0, 50, 99}
\* Math.random() - 0.5
Median == 50

\* e.code of the keyboard events delivered.
KeyCodes == {"KeyW", "KeyD", "KeyC"}

\* canvas.getBoundingClientRect(): the canvas is shown at half size.
Rect == [left |-> 10, top |-> 20, width |-> 400, height |-> 300]

\* clientX, clientY of the touches delivered.
TouchPoints == { [clientX |-> 72, clientY |-> 112],    \* canvas (124, 184)
                 [clientX |-> 500, clientY |-> 400] }  \* right of and below the canvas

----------------------------------------------------------------------------
VARIABLES
    \* GameCanvas.tsx refs
    goaliePos, stickPos, stanceLerp, shooterPos, puckPos, puckVel, puckTrail,
    hasShot, roundEnded, keysPressed, windUpStart, isDragging, frameCount,
    \* host: Date.now(), the pending requestAnimationFrame callback, the
    \* listeners of the main effect, and whether its dependencies changed;
    \* the number of runs of the main effect since the canvas was mounted, and
    \* what the runs that were cleaned up have left registered or scheduled
    now, rafPending, listening, effectStale, instance, leftOver,
    \* App.tsx state, and the pending timeouts of its transition effect
    gameState, currentRound, score, consecutiveAIScores, hatTrickActive,
    consecutiveSaves, octopusActive, commentary, loadingCommentary, timers,
    \* getCommentary calls in flight, and whether the service has a credential
    calls, genAI,
    \* history: outcomes passed to onRoundEnd since the round reset, what the
    \* last update() did, the shootThreshold it computed (line 249) if it ran
    \* the shooter AI, and the budgets used
    reports, lastFrame, shootThreshold, oddDraws, inputs,
    \* history of the game: the rounds in a row, up to the last one reported,
    \* that ended as a success (n > 0: n of them) or as a goal (n < 0: -n)
    roundStreak, downFrames,
    \* history: the call whose text the commentary is (<<>>: none yet)
    commentaryCall

canvasVars == << goaliePos, stickPos, stanceLerp, shooterPos, puckPos, puckVel,
                 puckTrail, hasShot, roundEnded, keysPressed, windUpStart,
                 isDragging, frameCount >>
hostVars == << now, rafPending, listening, effectStale, instance, leftOver >>
appVars == << gameState, currentRound, score, consecutiveAIScores, hatTrickActive,
              consecutiveSaves, octopusActive, commentary, loadingCommentary,
              timers >>
serviceVars == << calls, genAI >>
historyVars == << reports, lastFrame, shootThreshold, oddDraws, inputs, roundStreak, downFrames,
                 commentaryCall >>
vars == << canvasVars, hostVars, appVars, serviceVars, historyVars >>

Vec(x, y) == [x |-> x, y |-> y]
Range(f) == {f[i] : i \in DOMAIN f}

\* A vector whose components are NaN (0/0 in the magnet branch): every
\* comparison with it is false and every sum with it is NaN again.
NaNVec == [x |-> 0, y |-> 0, nan |-> TRUE]
IsNum(v) == DOMAIN v = {"x", "y"}

\* Math.sqrt(dx*dx + dy*dy) < r, for r in canvas units.
Within(dx, dy, r) ==
    /\ Abs(dx) < U(r)
    /\ Abs(dy) < U(r)
    /\ dx * dx + dy * dy < U(r) * U(r)

\* Math.sin(Date.now() / 200) in 1/1000: the period 2*pi*200 ms is taken as
\* 1256 ms and each half wave is Bhaskara's rational approximation.
Sin1000(t) ==
    LET p == t % 1256
        x == IF p < 628 THEN p ELSE p - 628
        b == (16000 * x * (628 - x)) \div (5 * 628 * 628 - 4 * x * (628 - x))
    IN  IF p < 628 THEN b ELSE -b

----------------------------------------------------------------------------
(* GameCanvas.tsx: the steps of update(). *)

\* 1. stanceLerp += (targetStance - stanceLerp) * 0.15, in 1/LERP_ONE
LERP_ONE == 1000 * 1000

\* The stance step with a factor of 0.10.
LerpStepTenth(lerp, stick) ==
    LET targetStance == IF stick = "DOWN" THEN LERP_ONE ELSE 0
    IN  lerp + Quot((targetStance - lerp) * 10, 100)

LerpStep(lerp, stick) ==
    LET targetStance == IF stick = "DOWN" THEN LERP_ONE ELSE 0
    IN  lerp + Quot((targetStance - lerp) * 15, 100)

\* 2. goalie movement by the held keys, then the clamp
Held(keys, a, b) == a \in keys \/ b \in keys

\* KeyMove without lines 231-232.
KeyMoveNoClamp(g, keys, cfg) ==
    LET speed == IF cfg.hasPowerUp THEN U(4) * 2 ELSE U(4)
        y1 == IF Held(keys, "ArrowUp", "KeyW") THEN g.y - speed ELSE g.y
        y2 == IF Held(keys, "ArrowDown", "KeyS") THEN y1 + speed ELSE y1
        x1 == IF Held(keys, "ArrowLeft", "KeyA") THEN g.x - speed ELSE g.x
        x2 == IF Held(keys, "ArrowRight", "KeyD") THEN x1 + speed ELSE x1
    IN  Vec(x2, y2)

KeyMove(g, keys, cfg) ==
    LET speed == IF cfg.hasPowerUp THEN U(4) * 2 ELSE U(4)
        y1 == IF Held(keys, "ArrowUp", "KeyW") THEN g.y - speed ELSE g.y
        y2 == IF Held(keys, "ArrowDown", "KeyS") THEN y1 + speed ELSE y1
        x1 == IF Held(keys, "ArrowLeft", "KeyA") THEN g.x - speed ELSE g.x
        x2 == IF Held(keys, "ArrowRight", "KeyD") THEN x1 + speed ELSE x1
    IN  Vec(Clamp(U(50), U(140), x2), Clamp(U(50), U(CANVAS_HEIGHT - 50), y2))

\* The goalie step without the test of isDragging at line 222.
GoalieStepWhileDragging(g, keys, dragging, cfg) == KeyMove(g, keys, cfg)

GoalieStep(g, keys, dragging, cfg) == IF dragging THEN g ELSE KeyMove(g, keys, cfg)

\* 3. the approaching shooter: advance, sway with the clock, jitter, clamp
ShooterAdvance(sh, t, rj, cfg) ==
    LET sway == Quot(Sin1000(t) * cfg.shooterSpeed, 2000)
        jit == Quot((rj - Median) * cfg.jitter * 2, 100)
    IN  Vec(sh.x - cfg.shooterSpeed,
            Clamp(U(50), U(CANVAS_HEIGHT - 50), sh.y + sway + jit))

\* windUpStart.current is null (<<>>) or a timestamp t (<<t>>);
\* !windUpStart.current: null and 0 are both falsy
NoWindUp(w) == w = <<>> \/ w = <<0>>

\* The attached puck without the shift of line 247.
AttachedAtShooter(sh) == Vec(sh.x, sh.y)

\* puckPos = { ...shooterPos }; puckPos.x -= 20
Attached(sh) == Vec(sh.x - U(20), sh.y)

\* The threshold drawn from [0, 100).
ShootThresholdBehindGoalie(rt) == rt * SCALE

\* shootThreshold = 250 + Math.random() * 100
ShootThreshold(rt) == U(250) + rt * SCALE

\* the threshold lies in [250, 350): only there does its draw decide
ThresholdMatters(sh) == sh.x >= U(250) /\ sh.x < U(350)

\* ShooterDecision without the release.
ShooterNeverShoots(sh, w, t, rt, cfg) ==
    IF ~(sh.x < ShootThreshold(rt)) THEN "none"
    ELSE IF cfg.isSlapShot /\ NoWindUp(w) THEN "windup"
    ELSE "none"

\* ShooterDecision winding up whatever roundConfig.isSlapShot is.
ShooterWindsUpInEveryRound(sh, w, t, rt, cfg) ==
    IF ~(sh.x < ShootThreshold(rt)) THEN "none"
    ELSE IF NoWindUp(w) THEN "windup"
    ELSE IF t - w[1] > 500 THEN "shoot"
    ELSE "none"

\* what the threshold branch does: "none", "windup" or "shoot"
ShooterDecision(sh, w, t, rt, cfg) ==
    IF ~(sh.x < ShootThreshold(rt)) THEN "none"
    ELSE IF cfg.isSlapShot /\ NoWindUp(w) THEN "windup"
    ELSE IF cfg.isSlapShot /\ ~NoWindUp(w)
         THEN (IF t - w[1] > 500 THEN "shoot" ELSE "none")
    ELSE "shoot"

\* takeShot(): the velocity toward the chosen point of the goal mouth
ShotTargetY(rc, cfg) ==
    LET goalCenter == U(GOAL_TOP + GOAL_BOTTOM) \div 2
        corner == IF rc > Median THEN U(GOAL_TOP + 15) ELSE U(GOAL_BOTTOM - 15)
    IN  IF 2 * cfg.aiIntelligence > SCALE
        THEN goalCenter + Quot((corner - goalCenter) * cfg.aiIntelligence, SCALE)
        ELSE goalCenter + (rc * SCALE - U(50))

takeShot(p, rc, cfg) ==
    LET dx == U(GOAL_X) - p.x
        dy == ShotTargetY(rc, cfg) - p.y
        dist == Sqrt(dx * dx + dy * dy)
    IN  Vec(Quot(dx * cfg.shotSpeed, dist), Quot(dy * cfg.shotSpeed, dist))

\* the magnet branch: angle = Math.atan2(dy, dx) lies strictly inside
\* (-0.75 pi, 0.75 pi) unless dx < 0 and |dy| <= -dx
InCone(dx, dy) == ~(dx < 0 /\ Abs(dy) <= -dx)

\* dist < 100 and the angle inside the cone
NearGoalie(g, p) ==
    /\ IsNum(p)
    /\ Within(g.x - p.x, g.y - p.y, 100)
    /\ InCone(g.x - p.x, g.y - p.y)

\* MagnetApplies without the test of roundConfig.hasMagnet.
MagnetInEveryRound(g, p, cfg) == NearGoalie(g, p)

MagnetApplies(g, p, cfg) == cfg.hasMagnet /\ NearGoalie(g, p)

Magnet(g, p, v, cfg) ==
    IF ~MagnetApplies(g, p, cfg) THEN v
    ELSE LET dx == g.x - p.x
             dy == g.y - p.y
             dist == Sqrt(dx * dx + dy * dy)
         IN  IF dist = 0 \/ ~IsNum(v) THEN NaNVec
             ELSE Vec(v.x + Quot(dx * 2 * SCALE, dist), v.y + Quot(dy * 2 * SCALE, dist))

\* puckPos += puckVel
Integrate(p, v) == IF IsNum(p) /\ IsNum(v) THEN Vec(p.x + v.x, p.y + v.y) ELSE NaNVec

\* puckVel.y += (Math.random() - 0.5) * curveFactor * 0.4
Curve(v, rv, cfg) ==
    IF cfg.curveFactor = 0 \/ ~IsNum(v) THEN v
    ELSE Vec(v.x, v.y + Quot((rv - Median) * cfg.curveFactor * 4, 1000))

\* The trail dropping the newest entry at the cap.
TrailPushDropNewest(trail, p) ==
    LET t == Append(trail, p)
    IN  IF Len(t) > 15 THEN SubSeq(t, 1, 15) ELSE t

\* puckTrail.push(...); if (length > 15) shift()
TrailPush(trail, p) ==
    LET t == Append(trail, p)
    IN  IF Len(t) > 15 THEN Tail(t) ELSE t

----------------------------------------------------------------------------
(* GameCanvas.tsx: 4. collision detection and the outcome. *)

Goal == [success |-> FALSE, saveType |-> NULL]
Save(t) == [success |-> TRUE, saveType |-> t]

StickYOffset(stick) ==
    IF stick = "DOWN" THEN U(35) ELSE IF stick = "UP" THEN -U(35) ELSE 0

BodyHit(p, g) ==
    IsNum(p) /\ Within(p.x - g.x, p.y - g.y, GOALIE_RADIUS + PUCK_RADIUS)

StickHit(p, g, stick) ==
    /\ IsNum(p)
    /\ Within(p.x - (g.x + U(20)), p.y - (g.y + StickYOffset(stick)), 18 + PUCK_RADIUS)

\* The glove rule without the test of the stick selector at line 311.
GloveHitAnySelector(p, g, stick) ==
    /\ IsNum(p)
    /\ p.x > g.x - U(35) /\ p.x < g.x + U(35)
    /\ p.y > g.y - U(70) /\ p.y < g.y - U(15)

GloveHit(p, g, stick) ==
    /\ stick = "UP"
    /\ IsNum(p)
    /\ p.x > g.x - U(35) /\ p.x < g.x + U(35)
    /\ p.y > g.y - U(70) /\ p.y < g.y - U(15)

ButterflyHit(p, g, stick) ==
    /\ stick = "DOWN"
    /\ IsNum(p)
    /\ p.x > g.x - U(60) /\ p.x < g.x + U(60)
    /\ p.y > g.y + U(10) /\ p.y < g.y + U(50)

PastGoalLine(p) == IsNum(p) /\ p.x < U(GOAL_X + 5)

\* InGoalMouth with the posts counted in.
InGoalMouthWithPosts(p) == p.y >= U(GOAL_TOP) /\ p.y <= U(GOAL_BOTTOM)

InGoalMouth(p) == p.y > U(GOAL_TOP) /\ p.y < U(GOAL_BOTTOM)
OffCanvas(p) == IsNum(p) /\ (p.x < 0 \/ p.y < 0 \/ p.y > U(CANVAS_HEIGHT))

\* What one pass over lines 286-349 does: the rules whose condition it
\* evaluates (rules), those that call endRound (fired) with what they pass
\* to it (reported), and whether it goes on to draw() and
\* requestAnimationFrame(update) (drew).
SaveRule(rule, sofar) ==
    [rules |-> Append(sofar, rule), fired |-> <<rule>>,
     reported |-> <<Save(rule)>>, drew |-> FALSE]

\* Collide with the stick rule ahead of the body rule.
CollideStickFirst(p, g, stick) ==
    IF StickHit(p, g, stick) THEN SaveRule("stick", <<>>)
    ELSE IF BodyHit(p, g) THEN SaveRule("body", <<"stick">>)
    ELSE IF GloveHit(p, g, stick) THEN SaveRule("glove", <<"stick", "body">>)
    ELSE IF ButterflyHit(p, g, stick)
         THEN SaveRule("butterfly", <<"stick", "body", "glove">>)
    ELSE [rules |-> <<"stick", "body", "glove", "butterfly", "goalLine", "edge">>,
          fired |-> <<>>, reported |-> <<>>, drew |-> TRUE]

Collide(p, g, stick) ==
    IF BodyHit(p, g) THEN SaveRule("body", <<>>)
    ELSE IF StickHit(p, g, stick) THEN SaveRule("stick", <<"body">>)
    ELSE IF GloveHit(p, g, stick) THEN SaveRule("glove", <<"body", "stick">>)
    ELSE IF ButterflyHit(p, g, stick)
         THEN SaveRule("butterfly", <<"body", "stick", "glove">>)
    ELSE LET line == IF PastGoalLine(p)
                     THEN (IF InGoalMouth(p) THEN <<Goal>> ELSE <<Save("miss")>>)
                     ELSE <<>>
             edge == IF OffCanvas(p) THEN <<Save("miss")>> ELSE <<>>
         IN  [rules |-> <<"body", "stick", "glove", "butterfly", "goalLine", "edge">>,
              fired |-> (IF line # <<>> THEN <<"goalLine">> ELSE <<>>)
                        \o (IF edge # <<>> THEN <<"edge">> ELSE <<>>),
              reported |-> line \o edge,
              drew |-> TRUE]

\* update() returning at line 213.
Idle == [rules |-> <<>>, fired |-> <<>>, reported |-> <<>>, drew |-> FALSE]

----------------------------------------------------------------------------
(* App.tsx: handleRoundEnd, as the canvas calls it through onRoundEnd. *)

AppRec == [gameState |-> gameState, score |-> score,
           consecutiveAIScores |-> consecutiveAIScores,
           hatTrickActive |-> hatTrickActive,
           consecutiveSaves |-> consecutiveSaves,
           octopusActive |-> octopusActive,
           loadingCommentary |-> loadingCommentary, calls |-> calls]

\* What the callback closed over when it was created.
Closure == [currentRound |-> currentRound, consecutiveSaves |-> consecutiveSaves,
            consecutiveAIScores |-> consecutiveAIScores]

ShotType(r) ==
    IF r = 7 THEN "Curveball"
    ELSE IF roundConfig(r).hasPowerUp THEN "Power Shot"
    ELSE IF roundConfig(r).isSlapShot THEN "Slap Shot"
    ELSE ""

handleRoundEnd(a, cl, o) ==
    LET counted ==
            IF o.success
            THEN [a EXCEPT !.octopusActive = (@ \/ cl.consecutiveSaves = 5),
                           !.consecutiveSaves = @ + 1,
                           !.score = @ + 1,
                           !.consecutiveAIScores = 0,
                           !.gameState = "ROUND_WON"]
            ELSE [a EXCEPT !.hatTrickActive = (@ \/ cl.consecutiveAIScores = 2),
                           !.consecutiveSaves = 0,
                           !.consecutiveAIScores = @ + 1,
                           !.gameState = "ROUND_LOST"]
    IN  [counted EXCEPT !.loadingCommentary = TRUE,
                        !.calls = Append(@, [round |-> cl.currentRound,
                                             won |-> o.success,
                                             shotType |-> ShotType(cl.currentRound),
                                             saveType |-> o.saveType])]

\* endRound(): once for every entry of reported, in order
RECURSIVE EndRounds(_, _, _)
EndRounds(a, cl, reported) ==
    IF reported = <<>> THEN a
    ELSE EndRounds(handleRoundEnd(a, cl, Head(reported)), cl, Tail(reported))

\* transitionEffect setting two timers in ROUND_TRANSITION.
transitionEffectTwoTimers(pending, from, to) ==
    IF from = to THEN pending
    ELSE LET cleared == IF from = "ROUND_TRANSITION" THEN 0 ELSE pending
         IN  IF to = "ROUND_TRANSITION" THEN cleared + 2 ELSE cleared

\* transitionEffect setting its timer after every change of gameState.
transitionEffectAlways(pending, from, to) ==
    IF from = to THEN pending
    ELSE LET cleared == IF from = "ROUND_TRANSITION" THEN 0 ELSE pending
         IN  cleared + 1

\* The transition effect (lines 107-116) when gameState goes from from to
\* to, on the number of its timeouts that are pending: the cleanup of the
\* run before clears the timer that run had set, and the new run sets one
\* in ROUND_TRANSITION.
transitionEffect(pending, from, to) ==
    IF from = to THEN pending
    ELSE LET cleared == IF from = "ROUND_TRANSITION" THEN 0 ELSE pending
         IN  IF to = "ROUND_TRANSITION" THEN cleared + 1 ELSE cleared

\* The streak of rounds after a frame has reported: a round counts once,
\* by the first outcome its frame passes to onRoundEnd.
RoundStreak(n, reported) ==
    IF reported = <<>> THEN n
    ELSE IF Head(reported).success THEN (IF n > 0 THEN n + 1 ELSE 1)
    ELSE (IF n < 0 THEN n - 1 ELSE -1)

SetApp(a) ==
    /\ gameState' = a.gameState
    /\ timers' = transitionEffect(timers, gameState, a.gameState)
    /\ score' = a.score
    /\ consecutiveAIScores' = a.consecutiveAIScores
    /\ hatTrickActive' = a.hatTrickActive
    /\ consecutiveSaves' = a.consecutiveSaves
    /\ octopusActive' = a.octopusActive
    /\ loadingCommentary' = a.loadingCommentary
    /\ calls' = a.calls

----------------------------------------------------------------------------
(* GameCanvas.tsx: update(), one invocation. *)

\* The Math.random() calls a frame makes: jitter (rj) while approaching and
\* not winding up, threshold (rt) before release, target (rc) in takeShot,
\* curve (rv) in flight.  A call whose result has no effect (jitter 0, a
\* shooter outside the band of the threshold) is not drawn.  At most
\* MaxOddDraws results of a round differ from the median.
Odd(r) == IF r = Median THEN 0 ELSE 1
Draws(used) == IF used THEN RandSet ELSE {Median}

\* The number of frames executed in a row with the stick selector DOWN
\* (lines 217-219), after one more frame.
DownFrames(n, stick) == IF stick = "DOWN" THEN n + 1 ELSE 0

\* Lines 286-349 on the frame's positions, and the bookkeeping of the frame.
\* stale: whether the main effect's dependencies had changed before.
Resolve(g, sh, p, v, trail, shot, windUp, thr, odd, stale) ==
    \E col \in {Collide(p, g, stickPos)} :
        /\ oddDraws + odd <= MaxOddDraws
        /\ oddDraws' = oddDraws + odd
        /\ now' = now + FrameMs
        /\ frameCount' = frameCount + 1
        /\ stanceLerp' = LerpStep(stanceLerp, stickPos)
        /\ goaliePos' = g
        /\ shooterPos' = sh
        /\ windUpStart' = windUp
        /\ hasShot' = shot
        /\ puckPos' = p
        /\ puckVel' = v
        /\ puckTrail' = trail
        /\ roundEnded' = (col.reported # <<>>)
        /\ reports' = reports \o col.reported
        /\ roundStreak' = RoundStreak(roundStreak, col.reported)
        /\ downFrames' = DownFrames(downFrames, stickPos)
        /\ lastFrame' = col
        /\ shootThreshold' = thr
        /\ rafPending' = col.drew
        /\ effectStale' = (stale \/ col.reported # <<>>)
        /\ SetApp(EndRounds(AppRec, Closure, col.reported))
        /\ UNCHANGED << stickPos, keysPressed, isDragging,
                        currentRound, commentary, genAI, inputs, commentaryCall >>

\* 3. Shooter AI (lines 236-260)
Approach(g, cfg, stale) ==
    \E rj \in Draws(NoWindUp(windUpStart) /\ cfg.jitter # 0) :
    \E sh \in {IF NoWindUp(windUpStart)
               THEN ShooterAdvance(shooterPos, now + FrameMs, rj, cfg)
               ELSE shooterPos} :
    \E rt \in Draws(ThresholdMatters(sh)) :
    \E decision \in {ShooterDecision(sh, windUpStart, now + FrameMs, rt, cfg)} :
    \E rc \in Draws(decision = "shoot") :
        Resolve(g, sh, Attached(sh),
                IF decision = "shoot" THEN takeShot(Attached(sh), rc, cfg) ELSE puckVel,
                puckTrail,
                decision = "shoot",
                IF decision = "windup" THEN <<now + FrameMs>> ELSE windUpStart,
                << ShootThreshold(rt) >>,
                Odd(rj) + Odd(rt) + Odd(rc), stale)

\* Puck physics (lines 262-284)
Fly(g, cfg, stale) ==
    \E rv \in Draws(cfg.curveFactor # 0) :
    \E v1 \in {Magnet(g, puckPos, puckVel, cfg)} :
    \E p \in {Integrate(puckPos, v1)} :
        Resolve(g, shooterPos, p, Curve(v1, rv, cfg), TrailPush(puckTrail, p),
                TRUE, windUpStart, <<>>, Odd(rv), stale)

\* update() without the test of hasShot at line 237.
updateShooterEveryFrame(stale) ==
    IF roundEnded
    THEN /\ rafPending' = FALSE
         /\ lastFrame' = Idle
         /\ shootThreshold' = <<>>
         /\ effectStale' = stale
         /\ UNCHANGED << canvasVars, now, appVars, serviceVars,
                         reports, oddDraws, inputs, roundStreak, downFrames,
                         commentaryCall >>
    ELSE /\ frameCount < MaxFrames
         /\ \E cfg \in {roundConfig(currentRound)} :
            \E g \in {GoalieStep(goaliePos, keysPressed, isDragging, cfg)} :
                Approach(g, cfg, stale)

\* update() without the return of line 213.
updateAfterOutcome(stale) ==
    /\ frameCount < MaxFrames
    /\ \E cfg \in {roundConfig(currentRound)} :
       \E g \in {GoalieStep(goaliePos, keysPressed, isDragging, cfg)} :
           IF hasShot THEN Fly(g, cfg, stale) ELSE Approach(g, cfg, stale)

update(stale) ==
    IF roundEnded
    THEN /\ rafPending' = FALSE
         /\ lastFrame' = Idle
         /\ shootThreshold' = <<>>
         /\ effectStale' = stale
         /\ UNCHANGED << canvasVars, now, appVars, serviceVars,
                         reports, oddDraws, inputs, roundStreak, downFrames,
                         commentaryCall >>
    ELSE /\ frameCount < MaxFrames
         /\ \E cfg \in {roundConfig(currentRound)} :
            \E g \in {GoalieStep(goaliePos, keysPressed, isDragging, cfg)} :
                IF hasShot THEN Fly(g, cfg, stale) ELSE Approach(g, cfg, stale)

\* The requestAnimationFrame callback.
Frame ==
    /\ rafPending
    /\ update(effectStale)
    /\ UNCHANGED << listening, instance, leftOver >>

\* The listeners the main effect adds (lines 204-208) and those its cleanup
\* removes (lines 588-592), by event type.
Registered == {"keydown", "keyup", "touchstart", "touchmove", "touchend"}
Removed == {"keydown", "keyup", "touchstart", "touchmove", "touchend"}

\* mainEffectCleanup without cancelAnimationFrame.
mainEffectCleanupNoCancel(i, pending) ==
    {<< e, i >> : e \in Registered \ Removed}
        \cup (IF pending THEN {<< "frame", i >>} ELSE {})

\* The cleanup of run i of the main effect (lines 586-594): what the run
\* still has registered or scheduled afterwards.  pending: whether a
\* callback it requested is waiting; animationFrameId.current names that
\* request (line 349), and cancelAnimationFrame takes it back.
mainEffectCleanup(i, pending) ==
    {<< e, i >> : e \in Registered \ Removed}
        \cup (IF pending THEN {<< "frame", i >>} \ {<< "frame", i >>} ELSE {})

\* The main effect (lines 85-595): on mount, and again when roundConfig or
\* onRoundEnd changed; the cleanup of the previous run (which cancels the
\* pending frame) comes first.  It registers the listeners and calls update().
MainEffect ==
    /\ gameState \in {"PLAYING", "ROUND_WON", "ROUND_LOST"}
    /\ ~listening \/ effectStale
    /\ leftOver' = leftOver \cup (IF listening THEN mainEffectCleanup(instance, rafPending)
                                  ELSE {})
    /\ instance' = instance + 1
    /\ listening' = TRUE
    /\ update(FALSE)

----------------------------------------------------------------------------
(* GameCanvas.tsx: the input handlers. *)

\* updateGoalieFromTouch: client coordinates to canvas coordinates, the
\* stick zone, the clamp
TouchTarget(touch) ==
    Vec(Quot((touch.clientX - Rect.left) * U(CANVAS_WIDTH), Rect.width),
        Quot((touch.clientY - Rect.top) * U(CANVAS_HEIGHT), Rect.height))

TouchStick(targetY) ==
    IF targetY * 100 > U(CANVAS_HEIGHT) * 66 THEN "DOWN"
    ELSE IF targetY * 100 < U(CANVAS_HEIGHT) * 33 THEN "UP"
    ELSE "STRAIGHT"

TouchGoalie(target) ==
    Vec(Clamp(U(50), U(140), target.x), Clamp(U(50), U(CANVAS_HEIGHT - 50), target.y))

updateGoalieFromTouch(touch) ==
    /\ stickPos' = TouchStick(TouchTarget(touch).y)
    /\ goaliePos' = TouchGoalie(TouchTarget(touch))

KeyStick(code, stick) ==
    IF code \in {"Digit3", "KeyC"} THEN "DOWN"
    ELSE IF code \in {"Digit2", "KeyX"} THEN "STRAIGHT"
    ELSE IF code \in {"Digit1", "KeyZ"} THEN "UP"
    ELSE stick

Delivered ==
    /\ listening
    /\ frameCount < InputFrames \/ roundEnded
    /\ inputs < MaxInputs
    /\ inputs' = inputs + 1

handleKeyDown(code) ==
    /\ Delivered
    /\ IF roundEnded
       THEN UNCHANGED << keysPressed, stickPos >>
       ELSE /\ keysPressed' = keysPressed \cup {code}
            /\ stickPos' = KeyStick(code, stickPos)
    /\ UNCHANGED << goaliePos, stanceLerp, shooterPos, puckPos, puckVel, puckTrail,
                    hasShot, roundEnded, windUpStart, isDragging, frameCount,
                    hostVars, appVars, serviceVars, reports, lastFrame, shootThreshold, oddDraws,
                    roundStreak, downFrames, commentaryCall >>

handleKeyUp(code) ==
    /\ Delivered
    /\ code \in keysPressed
    /\ keysPressed' = keysPressed \ {code}
    /\ UNCHANGED << goaliePos, stickPos, stanceLerp, shooterPos, puckPos, puckVel,
                    puckTrail, hasShot, roundEnded, windUpStart, isDragging,
                    frameCount, hostVars, appVars, serviceVars, reports,
                    lastFrame, shootThreshold, oddDraws,
                    roundStreak, downFrames, commentaryCall >>

handleTouchStart(touch) ==
    /\ Delivered
    /\ ~isDragging
    /\ isDragging' = TRUE
    /\ updateGoalieFromTouch(touch)
    /\ UNCHANGED << stanceLerp, shooterPos, puckPos, puckVel, puckTrail, hasShot,
                    roundEnded, keysPressed, windUpStart, frameCount, hostVars,
                    appVars, serviceVars, reports, lastFrame, shootThreshold, oddDraws,
                    roundStreak, downFrames, commentaryCall >>

handleTouchMove(touch) ==
    /\ Delivered
    /\ isDragging
    /\ IF ~roundEnded
       THEN updateGoalieFromTouch(touch)
       ELSE UNCHANGED << stickPos, goaliePos >>
    /\ UNCHANGED << stanceLerp, shooterPos, puckPos, puckVel, puckTrail, hasShot,
                    roundEnded, keysPressed, windUpStart, isDragging, frameCount,
                    hostVars, appVars, serviceVars, reports, lastFrame, shootThreshold, oddDraws,
                    roundStreak, downFrames, commentaryCall >>

handleTouchEnd ==
    /\ Delivered
    /\ isDragging
    /\ isDragging' = FALSE
    /\ UNCHANGED << goaliePos, stickPos, stanceLerp, shooterPos, puckPos, puckVel,
                    puckTrail, hasShot, roundEnded, keysPressed, windUpStart,
                    frameCount, hostVars, appVars, serviceVars, reports,
                    lastFrame, shootThreshold, oddDraws,
                    roundStreak, downFrames, commentaryCall >>

----------------------------------------------------------------------------
(* One round of the canvas. *)

\* The refs after the round-reset effect (lines 45-60).
ResetRefs ==
    /\ goaliePos = Vec(U(100), U(CANVAS_HEIGHT) \div 2)
    /\ shooterPos = Vec(U(CANVAS_WIDTH - 100), U(CANVAS_HEIGHT) \div 2)
    /\ puckPos = Vec(U(CANVAS_WIDTH - 100), U(CANVAS_HEIGHT) \div 2)
    /\ puckVel = Vec(0, 0)
    /\ hasShot = FALSE
    /\ roundEnded = FALSE
    /\ windUpStart = <<>>
    /\ stickPos = "STRAIGHT"
    /\ stanceLerp = 0
    /\ frameCount = 0
    /\ isDragging = FALSE
    /\ keysPressed = {}
    /\ puckTrail = <<>>

\* A round r being played, every earlier round of the game having been saved.
Init ==
    /\ ResetRefs
    /\ now = Epoch0
    /\ rafPending = FALSE
    /\ listening = FALSE
    /\ effectStale = FALSE
    /\ instance = 0
    /\ leftOver = {}
    /\ gameState = "PLAYING"
    /\ currentRound \in PlayedRounds
    /\ score = currentRound - 1
    /\ consecutiveAIScores = 0
    /\ hatTrickActive = FALSE
    /\ consecutiveSaves = currentRound - 1
    /\ octopusActive = (currentRound - 1 >= 6)
    /\ commentary = ""
    /\ loadingCommentary = FALSE
    /\ timers = 0
    /\ calls = <<>>
    /\ genAI = FALSE
    /\ reports = <<>>
    /\ lastFrame = Idle
    /\ shootThreshold = <<>>
    /\ oddDraws = 0
    /\ inputs = 0
    /\ roundStreak = currentRound - 1
    /\ downFrames = 0
    /\ commentaryCall = <<>>

Next ==
    \/ Frame
    \/ MainEffect
    \/ \E code \in KeyCodes : handleKeyDown(code)
    \/ \E code \in KeyCodes : handleKeyUp(code)
    \/ \E touch \in TouchPoints : handleTouchStart(touch)
    \/ \E touch \in TouchPoints : handleTouchMove(touch)
    \/ handleTouchEnd

Spec == Init /\ [][Next]_vars

----------------------------------------------------------------------------
(* The outcome of a round. *)

\* C1: between a round reset and the next, onRoundEnd is invoked at most
\* once, also on a frame whose puck satisfies both the goal-line condition
\* and a playfield-edge condition.
OneReportPerRound == Len(reports) <= 1

\* C10: an update() that reports an outcome evaluates no resolver rule after
\* the one that reported, does not call draw and does not request another
\* animation frame.
ReportEndsTheFrame ==
    lastFrame.reported # <<>> =>
        /\ Len(lastFrame.fired) = 1
        /\ lastFrame.rules[Len(lastFrame.rules)] = lastFrame.fired[1]
        /\ ~lastFrame.drew
        /\ ~rafPending

\* C2: once roundEnded is set, an update() (a step that delivers no input
\* event) leaves the goalie, the stance lerp, the shooter, the puck, its
\* velocity and trail, hasShot, windUpStart and frameCount as they are and
\* reports no outcome.
PhysicsVars == << goaliePos, stanceLerp, shooterPos, puckPos, puckVel, puckTrail,
                  hasShot, windUpStart, frameCount >>
FrozenAfterOutcome ==
    [][(roundEnded /\ inputs' = inputs) =>
           (UNCHANGED PhysicsVars /\ reports' = reports)]_vars

\* an update() has run after the outcome
UpdateAfterOutcome == roundEnded /\ lastFrame = Idle /\ Len(reports) = 1

\* C5: the goalie stays inside 50 <= x <= 140, 50 <= y <= CANVAS_HEIGHT - 50
\* under frames, held keys (with or without the power-up) and touches.
GoalieInsideClamp ==
    /\ goaliePos.x >= U(50) /\ goaliePos.x <= U(140)
    /\ goaliePos.y >= U(50) /\ goaliePos.y <= U(CANVAS_HEIGHT - 50)

\* the power-up speed of 8 steps from 300 over 52 and 44: only the clamp
\* puts the goalie at 50
GoalieHeldAtEdge ==
    /\ roundConfig(currentRound).hasPowerUp
    /\ ~isDragging
    /\ "KeyW" \in keysPressed
    /\ goaliePos.y = U(50)

\* C7: in a round without the magnet the x-velocity of a released puck is
\* the same after every step, and for curveFactor 0 so is the y-velocity,
\* wherever the goalie is.
MagnetOffKeepsVelocity ==
    [][(hasShot /\ ~roundConfig(currentRound).hasMagnet) =>
           /\ puckVel'.x = puckVel.x
           /\ roundConfig(currentRound).curveFactor = 0 => puckVel' = puckVel]_vars

\* a released puck within the magnet's reach of the goalie, the magnet off
PuckNearGoalieMagnetOff ==
    /\ ~roundConfig(currentRound).hasMagnet
    /\ hasShot /\ ~roundEnded
    /\ Len(puckTrail) >= 2
    /\ NearGoalie(goaliePos, puckPos)

----------------------------------------------------------------------------
(* Round 1 with the goalie left alone: no input event is delivered, and the
   browser keeps running the effect and the requested animation frames. *)

InitRound1 == Init /\ currentRound = 1

NextRound1 == Frame \/ MainEffect

SpecRound1 ==
    InitRound1 /\ [][NextRound1]_vars /\ WF_vars(Frame) /\ WF_vars(MainEffect)

\* No frame of round 1 comes after this one: the shooter, 2 a frame from
\* x = 700, is below every threshold after 226 frames, and the puck, at
\* least 4.2 a frame toward the goal, is past the goal line 43 frames later.
Round1Frames == 270

\* C6 as claimed: in round 1 with a stationary goalie the released puck
\* eventually crosses the goal line.
Round1PuckCrossesGoalLine == <>(hasShot /\ PastGoalLine(puckPos))

\* C6, amended: in round 1 with a stationary goalie the shooter eventually
\* releases, and within Round1Frames frames the round resolves, and stays
\* resolved, to exactly one outcome; the puck crosses the goal line unless a
\* save zone stops it first.
Round1Resolves ==
    <>[](/\ hasShot /\ roundEnded
         /\ Len(reports) = 1
         /\ frameCount <= Round1Frames
         /\ PastGoalLine(puckPos) \/ reports[1].saveType \in {"body", "stick"})

\* round 1 ended by a save of the stationary goalie, the puck short of the line
Round1SavedBeforeGoalLine ==
    /\ currentRound = 1 /\ inputs = 0
    /\ roundEnded /\ reports = << Save("stick") >>
    /\ ~PastGoalLine(puckPos)

----------------------------------------------------------------------------
(* The resolver of lines 286-349 as a function of the puck position, the
   goalie position and the stick selector: a frame of round 1 in flight whose
   physics step has put the puck at any point of a grid. *)

PuckXs == {0, 30, 44, 45, 60, 75, 100, 118, 130}
PuckYs == {-1, 0, 160, 170, 171, 250, 290, 300, 320, 340, 429, 430, 431, 600, 601}
GoalieSpots == {Vec(U(50), U(300)), Vec(U(100), U(300)),
                Vec(U(50), U(200)), Vec(U(140), U(550))}
Sticks == {"UP", "STRAIGHT", "DOWN"}

InitResolver ==
    /\ goaliePos \in GoalieSpots
    /\ stickPos \in Sticks
    /\ puckPos \in {Vec(U(x), U(y)) : x \in PuckXs, y \in PuckYs}
    /\ puckVel = Vec(-U(8), 0)
    /\ puckTrail = << puckPos >>
    /\ shooterPos = Vec(U(300), U(CANVAS_HEIGHT) \div 2)
    /\ hasShot = TRUE
    /\ roundEnded = FALSE
    /\ windUpStart = <<>>
    /\ stanceLerp = 0
    /\ frameCount = 210
    /\ isDragging = FALSE
    /\ keysPressed = {}
    /\ now = Epoch0 + 210 * FrameMs
    /\ rafPending = TRUE
    /\ listening = TRUE
    /\ effectStale = FALSE
    /\ instance = 1
    /\ leftOver = {}
    /\ gameState = "PLAYING"
    /\ currentRound = 1
    /\ score = 0
    /\ consecutiveAIScores = 0
    /\ hatTrickActive = FALSE
    /\ consecutiveSaves = 0
    /\ octopusActive = FALSE
    /\ commentary = ""
    /\ loadingCommentary = FALSE
    /\ timers = 0
    /\ calls = <<>>
    /\ genAI = FALSE
    /\ reports = <<>>
    /\ lastFrame = Idle
    /\ shootThreshold = <<>>
    /\ oddDraws = 0
    /\ inputs = 0
    /\ roundStreak = 0
    /\ downFrames = 0
    /\ commentaryCall = <<>>

\* Lines 286-349 of the frame, on the positions as they are.
Resolver ==
    /\ rafPending /\ ~roundEnded
    /\ \E col \in {Collide(puckPos, goaliePos, stickPos)} :
        /\ lastFrame' = col
        /\ shootThreshold' = <<>>
        /\ roundEnded' = (col.reported # <<>>)
        /\ reports' = reports \o col.reported
        /\ roundStreak' = RoundStreak(roundStreak, col.reported)
        /\ rafPending' = FALSE
        /\ effectStale' = (col.reported # <<>>)
        /\ SetApp(EndRounds(AppRec, Closure, col.reported))
    /\ UNCHANGED << goaliePos, stickPos, stanceLerp, shooterPos, puckPos, puckVel,
                    puckTrail, hasShot, keysPressed, windUpStart, isDragging,
                    frameCount, now, listening, instance, leftOver, currentRound,
                    commentary, genAI, oddDraws, inputs, downFrames,
                    commentaryCall >>

NextResolver == Resolver

SpecResolver == InitResolver /\ [][NextResolver]_vars

\* The six rules in the order claimed, and what each reports.
RuleOrder == << "body", "stick", "glove", "butterfly", "goal", "miss" >>
RuleHolds(rule) ==
    CASE rule = "body" -> BodyHit(puckPos, goaliePos)
      [] rule = "stick" -> StickHit(puckPos, goaliePos, stickPos)
      [] rule = "glove" -> GloveHit(puckPos, goaliePos, stickPos)
      [] rule = "butterfly" -> ButterflyHit(puckPos, goaliePos, stickPos)
      [] rule = "goal" -> puckPos.x < U(GOAL_X + 5)
                          /\ puckPos.y > U(GOAL_TOP) /\ puckPos.y < U(GOAL_BOTTOM)
      [] rule = "miss" -> \/ puckPos.x < U(GOAL_X + 5)
                          \/ puckPos.x < 0 \/ puckPos.y < 0
                          \/ puckPos.y > U(CANVAS_HEIGHT)
RuleOutcome(rule) == IF rule = "goal" THEN Goal ELSE Save(rule)
Resolved == lastFrame # Idle
InSaveZone == \E i \in 1..4 : RuleHolds(RuleOrder[i])

\* C3: the frame reports the outcome of the first rule, in the order body,
\* stick, glove, butterfly, goal, miss, whose condition holds, and nothing
\* when none holds; body wins over stick, and a save wins over a goal.
FirstRuleReports ==
    Resolved =>
        /\ \A i \in 1..6 :
              (RuleHolds(RuleOrder[i]) /\ \A j \in 1..(i - 1) : ~RuleHolds(RuleOrder[j]))
                  => (/\ lastFrame.reported # <<>>
                      /\ \A k \in 1..Len(lastFrame.reported) :
                            lastFrame.reported[k] = RuleOutcome(RuleOrder[i]))
        /\ (\A i \in 1..6 : ~RuleHolds(RuleOrder[i])) => lastFrame.reported = <<>>
        /\ (RuleHolds("body") /\ RuleHolds("stick"))
               => lastFrame.reported = << Save("body") >>
        /\ (InSaveZone /\ RuleHolds("goal")) => Goal \notin Range(lastFrame.reported)

\* a puck inside the body zone and the stick zone, reported as a body save
BodyBeatsStick ==
    /\ Resolved
    /\ RuleHolds("body") /\ RuleHolds("stick")
    /\ reports = << Save("body") >>

\* C4: with no save zone matching and the puck past the goal line, the
\* outcome is a goal exactly for GOAL_TOP < y < GOAL_BOTTOM; on a post
\* (y = GOAL_TOP or y = GOAL_BOTTOM) it is a miss.
GoalOnlyBetweenPosts ==
    (Resolved /\ ~InSaveZone /\ puckPos.x < U(GOAL_X + 5)) =>
        /\ lastFrame.reported # <<>>
        /\ lastFrame.reported[1] = Goal
              <=> (puckPos.y > U(GOAL_TOP) /\ puckPos.y < U(GOAL_BOTTOM))
        /\ lastFrame.reported[1] # Goal => lastFrame.reported[1] = Save("miss")
        /\ puckPos.y \in {U(GOAL_TOP), U(GOAL_BOTTOM)}
              => reports = << Save("miss") >>

\* a puck past the goal line exactly on the upper post, reported as a miss
MissOnThePost ==
    /\ Resolved /\ ~InSaveZone
    /\ puckPos.x < U(GOAL_X + 5)
    /\ puckPos.y = U(GOAL_TOP)
    /\ reports = << Save("miss") >>

----------------------------------------------------------------------------
(* App.tsx: the round manager.  The canvas is taken by what it reports: a
   mounted canvas in PLAYING ends its round with one of the report sequences
   a frame can produce. *)

\* What one frame passes to onRoundEnd: see Collide.
FrameReports == { << Goal >>, << Save("glove") >>, << Save("miss") >>,
                  << Save("miss"), Save("miss") >> }

\* What generateContent does when it is called: it resolves with a text,
\* resolves with none (response.text undefined or ""), or throws (also the
\* TypeError of reading .text of a response that is not an object).
Answers == {"text", "empty", "throws"}

Fulfilled(remote, text) == [settled |-> "resolved", remote |-> remote, text |-> text]

\* getCommentary without the try/catch of lines 24 and 60.
getCommentaryNoCatch(call, answer) ==
    IF ~genAI
    THEN Fulfilled(FALSE, IF call.won THEN "Great save! Ready for the next round?"
                         ELSE "Goal! Shake it off, goalie.")
    ELSE IF answer = "text" THEN Fulfilled(TRUE, "generated")
    ELSE IF answer = "empty"
         THEN Fulfilled(TRUE, IF call.won THEN "What a save!" ELSE "It's in the net!")
    ELSE [settled |-> "rejected", remote |-> TRUE, text |-> ""]

\* getCommentary (lines 12-64): how the promise settles, with what text, and
\* whether generateContent was called.
getCommentary(call, answer) ==
    IF ~genAI
    THEN Fulfilled(FALSE, IF call.won THEN "Great save! Ready for the next round?"
                         ELSE "Goal! Shake it off, goalie.")
    ELSE IF answer = "text" THEN Fulfilled(TRUE, "generated")
    ELSE IF answer = "empty"
         THEN Fulfilled(TRUE, IF call.won THEN "What a save!" ELSE "It's in the net!")
    ELSE Fulfilled(TRUE, IF call.won THEN "Spectacular save!" ELSE "Tough break, goalie!")

Without(seq, i) == SubSeq(seq, 1, i - 1) \o SubSeq(seq, i + 1, Len(seq))

\* The canvas is mounted: the refs as constructed and reset, no frame yet.
Mounted ==
    /\ goaliePos' = Vec(U(100), U(CANVAS_HEIGHT) \div 2)
    /\ shooterPos' = Vec(U(CANVAS_WIDTH - 100), U(CANVAS_HEIGHT) \div 2)
    /\ puckPos' = Vec(U(CANVAS_WIDTH - 100), U(CANVAS_HEIGHT) \div 2)
    /\ puckVel' = Vec(0, 0)
    /\ hasShot' = FALSE
    /\ roundEnded' = FALSE
    /\ windUpStart' = <<>>
    /\ stickPos' = "STRAIGHT"
    /\ stanceLerp' = 0
    /\ frameCount' = 0
    /\ isDragging' = FALSE
    /\ keysPressed' = {}
    /\ puckTrail' = <<>>
    /\ reports' = <<>>
    /\ lastFrame' = Idle
    /\ shootThreshold' = <<>>
    /\ oddDraws' = 0
    /\ inputs' = 0
    /\ downFrames' = 0
    /\ commentaryCall' = commentaryCall
    /\ rafPending' = FALSE
    /\ listening' = FALSE
    /\ effectStale' = FALSE
    /\ instance' = 0
    /\ leftOver' = leftOver

startGame ==
    /\ gameState = "MENU"
    /\ score' = 0
    /\ currentRound' = 1
    /\ roundStreak' = 0
    /\ gameState' = "PLAYING"
    /\ timers' = transitionEffect(timers, gameState, "PLAYING")
    /\ consecutiveAIScores' = 0
    /\ hatTrickActive' = FALSE
    /\ consecutiveSaves' = 0
    /\ octopusActive' = FALSE
    /\ Mounted
    /\ UNCHANGED << now, commentary, loadingCommentary, serviceVars >>

\* The mounted canvas plays its round and a frame reports.
RoundReported(reported) ==
    /\ gameState = "PLAYING"
    /\ ~roundEnded
    /\ roundEnded' = TRUE
    /\ hasShot' = TRUE
    /\ reports' = reports \o reported
    /\ roundStreak' = RoundStreak(roundStreak, reported)
    /\ effectStale' = TRUE
    /\ SetApp(EndRounds(AppRec, Closure, reported))
    /\ UNCHANGED << goaliePos, stickPos, stanceLerp, shooterPos, puckPos, puckVel,
                    puckTrail, keysPressed, windUpStart, isDragging, frameCount,
                    now, rafPending, listening, instance, leftOver, currentRound,
                    commentary, genAI,
                    lastFrame, shootThreshold, oddDraws, inputs, downFrames,
                    commentaryCall >>

\* A round lasts longer than a commentary call: the calls of the round
\* before have been answered.
RoundPlayed(reported) == calls = <<>> /\ RoundReported(reported)

\* The promise of a pending call settles: resolved, the await of line 160
\* resumes (lines 161-163); rejected, handleRoundEnd ends there.
CommentaryArrives(i, answer) ==
    /\ i \in DOMAIN calls
    /\ \E p \in {getCommentary(calls[i], answer)} :
          IF p.settled = "resolved"
          THEN /\ commentary' = p.text /\ loadingCommentary' = FALSE
               /\ commentaryCall' = << calls[i] >>
          ELSE UNCHANGED << commentary, loadingCommentary, commentaryCall >>
    /\ calls' = Without(calls, i)
    /\ UNCHANGED << canvasVars, hostVars, gameState, currentRound, score,
                    consecutiveAIScores, hatTrickActive, consecutiveSaves,
                    octopusActive, timers, genAI, reports, lastFrame,
                    shootThreshold, oddDraws, inputs, roundStreak, downFrames >>

\* proceedToNextOrEnd waiting for the commentary of the round.
proceedAfterCommentary ==
    /\ ~loadingCommentary
    /\ gameState \in {"ROUND_WON", "ROUND_LOST"}
    /\ gameState' = IF currentRound >= 10 THEN "GAME_OVER" ELSE "ROUND_TRANSITION"
    /\ timers' = transitionEffect(timers, gameState, gameState')
    /\ leftOver' = leftOver \cup (IF listening THEN mainEffectCleanup(instance, rafPending)
                                  ELSE {})
    /\ listening' = FALSE
    /\ rafPending' = FALSE
    /\ UNCHANGED << canvasVars, now, effectStale, instance, currentRound, score,
                    consecutiveAIScores, hatTrickActive, consecutiveSaves,
                    octopusActive, commentary, loadingCommentary, serviceVars,
                    historyVars >>

proceedToNextOrEnd ==
    /\ gameState \in {"ROUND_WON", "ROUND_LOST"}
    /\ gameState' = IF currentRound >= 10 THEN "GAME_OVER" ELSE "ROUND_TRANSITION"
    /\ timers' = transitionEffect(timers, gameState, gameState')
    /\ leftOver' = leftOver \cup (IF listening THEN mainEffectCleanup(instance, rafPending)
                                  ELSE {})
    /\ listening' = FALSE
    /\ rafPending' = FALSE
    /\ UNCHANGED << canvasVars, now, effectStale, instance, currentRound, score,
                    consecutiveAIScores, hatTrickActive, consecutiveSaves,
                    octopusActive, commentary, loadingCommentary, serviceVars,
                    historyVars >>

\* A timer of the transition effect fires after its 500 ms (line 111).
nextRound ==
    /\ timers > 0
    /\ currentRound' = currentRound + 1
    /\ roundStreak' = roundStreak
    /\ gameState' = "PLAYING"
    /\ timers' = transitionEffect(timers - 1, gameState, "PLAYING")
    /\ Mounted
    /\ UNCHANGED << now, score, consecutiveAIScores, hatTrickActive,
                    consecutiveSaves, octopusActive, commentary,
                    loadingCommentary, serviceVars >>

resetGame ==
    /\ gameState = "GAME_OVER"
    /\ gameState' = "MENU"
    /\ timers' = transitionEffect(timers, gameState, "MENU")
    /\ UNCHANGED << canvasVars, hostVars, currentRound, score, consecutiveAIScores,
                    hatTrickActive, consecutiveSaves, octopusActive, commentary,
                    loadingCommentary, serviceVars, historyVars >>

InitApp ==
    /\ ResetRefs
    /\ now = Epoch0
    /\ rafPending = FALSE
    /\ listening = FALSE
    /\ effectStale = FALSE
    /\ instance = 0
    /\ leftOver = {}
    /\ gameState = "MENU"
    /\ currentRound = 1
    /\ score = 0
    /\ consecutiveAIScores = 0
    /\ hatTrickActive = FALSE
    /\ consecutiveSaves = 0
    /\ octopusActive = FALSE
    /\ commentary = ""
    /\ loadingCommentary = FALSE
    /\ timers = 0
    /\ calls = <<>>
    /\ genAI \in BOOLEAN
    /\ reports = <<>>
    /\ lastFrame = Idle
    /\ shootThreshold = <<>>
    /\ oddDraws = 0
    /\ inputs = 0
    /\ roundStreak = 0
    /\ downFrames = 0
    /\ commentaryCall = <<>>

NextApp ==
    \/ startGame
    \/ \E reported \in FrameReports : RoundPlayed(reported)
    \/ \E i \in DOMAIN calls, answer \in Answers : CommentaryArrives(i, answer)
    \/ proceedToNextOrEnd
    \/ nextRound
    \/ resetGame

SpecApp == InitApp /\ [][NextApp]_vars

\* C8: isSlapShot exactly in round 4, hasPowerUp exactly in round 9,
\* hasMagnet exactly in round 5, so never two modifiers at once; and while a
\* round is being played, from its reset to its outcome, no step changes the
\* config of the current round.
ModifierOfTheRound ==
    /\ [](LET config == [r \in Rounds |-> roundConfig(r)]
          IN  \A r \in Rounds :
                /\ config[r].isSlapShot <=> r = 4
                /\ config[r].hasPowerUp <=> r = 9
                /\ config[r].hasMagnet <=> r = 5
                /\ Cardinality({m \in {"isSlapShot", "hasPowerUp", "hasMagnet"} :
                                   config[r][m]}) <= 1)
    /\ [][(gameState = "PLAYING" /\ ~roundEnded) =>
              roundConfig(currentRound)' = roundConfig(currentRound)]_vars

\* the magnet round has reported its outcome under the magnet config
MagnetRoundPlayed ==
    /\ currentRound = 5
    /\ roundEnded /\ gameState \in {"ROUND_WON", "ROUND_LOST"}
    /\ roundConfig(currentRound).hasMagnet
    /\ ~roundConfig(currentRound).isSlapShot /\ ~roundConfig(currentRound).hasPowerUp

----------------------------------------------------------------------------
(* The magnet round with the goalie dragged to one spot in front of the goal
   mouth and held there: the touch lands after the first frame. *)

\* clientX, clientY of the touch: canvas (118, 298), stick STRAIGHT
MagnetTouches == { [clientX |-> 69, clientY |-> 169] }

InitMagnet == Init /\ currentRound = 5

NextMagnet ==
    \/ Frame
    \/ MainEffect
    \/ \E touch \in MagnetTouches : handleTouchStart(touch)

SpecMagnet == InitMagnet /\ [][NextMagnet]_vars

\* puckPos outside the playfield, past any of its four edges
OutsidePlayfield(p) ==
    IsNum(p) /\ (p.x < 0 \/ p.x > U(CANVAS_WIDTH) \/ p.y < 0 \/ p.y > U(CANVAS_HEIGHT))

\* C11: a frame whose physics step leaves the puck outside the playfield,
\* past any of the four edges, with no save zone matching, reports the round
\* as a success of save-type 'miss'.
OutsidePlayfieldIsMiss ==
    (hasShot /\ lastFrame.drew /\ OutsidePlayfield(puckPos)) =>
        /\ roundEnded
        /\ lastFrame.reported # <<>>
        /\ \A k \in 1..Len(lastFrame.reported) : lastFrame.reported[k] = Save("miss")

----------------------------------------------------------------------------
(* The shooter of a round without the slap shot (round 1) and of the
   slap-shot round (round 4), the goalie left alone. *)

ShooterRounds == {1, 4}

InitShooter ==
    /\ ResetRefs
    /\ now = Epoch0
    /\ rafPending = FALSE
    /\ listening = FALSE
    /\ effectStale = FALSE
    /\ instance = 0
    /\ leftOver = {}
    /\ gameState = "PLAYING"
    /\ currentRound \in ShooterRounds
    /\ score = currentRound - 1
    /\ consecutiveAIScores = 0
    /\ hatTrickActive = FALSE
    /\ consecutiveSaves = currentRound - 1
    /\ octopusActive = FALSE
    /\ commentary = ""
    /\ loadingCommentary = FALSE
    /\ timers = 0
    /\ calls = <<>>
    /\ genAI = FALSE
    /\ reports = <<>>
    /\ lastFrame = Idle
    /\ shootThreshold = <<>>
    /\ oddDraws = 0
    /\ inputs = 0
    /\ roundStreak = currentRound - 1
    /\ downFrames = 0
    /\ commentaryCall = <<>>

NextShooter == Frame \/ MainEffect

SpecShooter == InitShooter /\ [][NextShooter]_vars

\* a step that is a full update() of a shooter that has not released
ApproachFrame == ~hasShot /\ frameCount' = frameCount + 1

\* C12: windUpStart is non-null only in a round with isSlapShot; in a round
\* without it the shooter releases in a frame exactly if its x is below the
\* threshold of that frame, so in the first such frame; and while winding up
\* (windUpStart non-null, hasShot false) a step leaves shooterPos as it is.
WindUpOnlyInSlapShot ==
    /\ [](windUpStart # <<>> => roundConfig(currentRound).isSlapShot)
    /\ [][(ApproachFrame /\ ~roundConfig(currentRound).isSlapShot) =>
              (hasShot' <=> shooterPos'.x < shootThreshold'[1])]_vars
    /\ [][(windUpStart # <<>> /\ ~hasShot) => shooterPos' = shooterPos]_vars

\* the shooter of round 4 has stood still for a frame of its wind-up
WoundUpForAFrame ==
    /\ roundConfig(currentRound).isSlapShot
    /\ windUpStart # <<>> /\ ~hasShot
    /\ now > windUpStart[1]

\* C13 as claimed: in the slap-shot round a frame of the wind-up releases
\* exactly if more than 500 ms have passed since windUpStart: never before,
\* and in the first frame after.
ReleaseAt500ms ==
    [][(ApproachFrame /\ roundConfig(currentRound).isSlapShot /\ windUpStart # <<>>) =>
           (hasShot' <=> now' - windUpStart[1] > 500)]_vars

\* C14: hasShot, once true, stays true; from then on no step of the round
\* moves the shooter, no step aims the puck again (takeShot has run once: the
\* velocity changes only as magnet and curve change it), and a frame puts the
\* puck where its velocity takes it from where it was, not at the shooter.
ReleasedOnce ==
    /\ [][hasShot => hasShot']_vars
    /\ [][hasShot => shooterPos' = shooterPos]_vars
    /\ [][(hasShot /\ frameCount' # frameCount) =>
              LET flown == Magnet(goaliePos', puckPos, puckVel, roundConfig(currentRound))
              IN  /\ puckPos' = Integrate(puckPos, flown)
                  /\ puckVel'.x = flown.x
                  /\ puckPos' # Attached(shooterPos')]_vars

\* the slap shot in flight, two frames after its release
SlapShotInFlight ==
    /\ roundConfig(currentRound).isSlapShot
    /\ hasShot /\ ~roundEnded
    /\ Len(puckTrail) >= 2

----------------------------------------------------------------------------
(* The input handlers and the frame step. *)

\* C15: a step that delivers a keyboard or touch event changes at most the
\* held-key set, the drag flag and the stick selector; it leaves the goalie
\* position, the puck position and velocity and the shooter position alone.
HandlersWriteOnlyInputState ==
    [][inputs' # inputs =>
           UNCHANGED << goaliePos, puckPos, puckVel, shooterPos >>]_vars

----------------------------------------------------------------------------
(* The round manager: advancing the round. *)

\* C16: a step changes currentRound, or resets the state of a round that
\* has ended, only when that round has reported its outcome and the manager
\* has left ROUND_WON/ROUND_LOST through proceedToNextOrEnd (it is in
\* ROUND_TRANSITION, or in MENU after GAME_OVER); while gameState is PLAYING
\* and the round is unresolved no step changes currentRound, and the canvas
\* stays mounted, so its reset effect does not run.
RoundAdvanceSerialized ==
    /\ [][(currentRound' # currentRound \/ (roundEnded /\ ~roundEnded')) =>
              /\ roundEnded /\ reports # <<>>
              /\ gameState \in {"ROUND_TRANSITION", "MENU"}]_vars
    /\ [][(gameState = "PLAYING" /\ ~roundEnded) =>
              /\ currentRound' = currentRound
              /\ gameState' \in {"PLAYING", "ROUND_WON", "ROUND_LOST"}]_vars

\* round 2 has been reset and is being played
SecondRoundStarted ==
    /\ currentRound = 2 /\ gameState = "PLAYING"
    /\ ~roundEnded /\ reports = <<>>
    /\ score + consecutiveAIScores = 1

\* C18: a step into ROUND_TRANSITION sets one timer and leaves currentRound;
\* the step out of it is nextRound, adding exactly 1 to currentRound, after
\* which no timer is pending; and outside ROUND_TRANSITION no timer is
\* pending, so a timer whose state was left never calls nextRound.
OneAdvancePerTransition ==
    /\ [](timers <= 1 /\ (timers > 0 => gameState = "ROUND_TRANSITION"))
    /\ [][(gameState # "ROUND_TRANSITION" /\ gameState' = "ROUND_TRANSITION") =>
              (timers' = 1 /\ currentRound' = currentRound)]_vars
    /\ [][(gameState = "ROUND_TRANSITION" /\ gameState' # "ROUND_TRANSITION") =>
              (currentRound' = currentRound + 1 /\ timers' = 0)]_vars
    /\ [][(currentRound' # currentRound /\ gameState # "MENU") =>
              (gameState = "ROUND_TRANSITION" /\ currentRound' = currentRound + 1)]_vars

\* two transitions have been made, and the round is the third
SecondTransitionDone ==
    /\ currentRound = 3 /\ gameState = "PLAYING"
    /\ timers = 0

----------------------------------------------------------------------------
(* The commentary service. *)

\* C19: getCommentary never rejects and resolves to a non-empty string:
\* without a credential to the default for the success flag, generateContent
\* not being called; when generateContent resolves without a text, or
\* throws, to the fallback for the success flag.  So every call that settles
\* sets a non-empty commentary and ends the loading state.
CommentaryAlwaysResolves ==
    /\ [](\A i \in DOMAIN calls : \A answer \in Answers :
            LET p == getCommentary(calls[i], answer)
                won == calls[i].won
            IN  /\ p.settled = "resolved"
                /\ p.text # ""
                /\ ~genAI => /\ ~p.remote
                             /\ p.text = IF won THEN "Great save! Ready for the next round?"
                                         ELSE "Goal! Shake it off, goalie."
                /\ (genAI /\ answer = "empty")
                       => p.text = IF won THEN "What a save!" ELSE "It's in the net!"
                /\ (genAI /\ answer = "throws")
                       => p.text = IF won THEN "Spectacular save!"
                                   ELSE "Tough break, goalie!")
    /\ [][Len(calls') < Len(calls) => (commentary' # "" /\ ~loadingCommentary')]_vars

\* the remote call of a lost round has thrown, and the fallback is shown
ThrowFellBack ==
    /\ genAI /\ calls = <<>>
    /\ gameState = "ROUND_LOST"
    /\ commentary = "Tough break, goalie!"

----------------------------------------------------------------------------
(* The last two rounds of a game whose first eight rounds were saved, with
   commentary calls that may stay unanswered: a round reports whatever calls
   are pending. *)

InitLastRounds ==
    /\ ResetRefs
    /\ now = Epoch0
    /\ rafPending = FALSE
    /\ listening = FALSE
    /\ effectStale = FALSE
    /\ instance = 0
    /\ leftOver = {}
    /\ gameState = "PLAYING"
    /\ currentRound = 9
    /\ score = 8
    /\ consecutiveAIScores = 0
    /\ hatTrickActive = FALSE
    /\ consecutiveSaves = 8
    /\ octopusActive = TRUE
    /\ genAI \in BOOLEAN
    /\ commentary = getCommentary([won |-> TRUE], "text").text
    /\ loadingCommentary = FALSE
    /\ timers = 0
    /\ calls = <<>>
    /\ reports = <<>>
    /\ lastFrame = Idle
    /\ shootThreshold = <<>>
    /\ oddDraws = 0
    /\ inputs = 0
    /\ roundStreak = 8
    /\ downFrames = 0
    /\ commentaryCall = <<>>

NextLastRounds ==
    \/ \E reported \in FrameReports : RoundReported(reported)
    \/ \E i \in DOMAIN calls, answer \in Answers : CommentaryArrives(i, answer)
    \/ proceedToNextOrEnd
    \/ nextRound

SpecLastRounds == InitLastRounds /\ [][NextLastRounds]_vars

\* C20: the step that starts a commentary call has already set gameState to
\* ROUND_WON or ROUND_LOST and counted the outcome, the call still pending;
\* and whatever calls are pending, and however long, proceedToNextOrEnd can
\* be taken in ROUND_WON/ROUND_LOST, the timer's nextRound in
\* ROUND_TRANSITION, and the next round can report.
CommentaryNeverBlocks ==
    /\ [][Len(calls') > Len(calls) =>
              /\ gameState' \in {"ROUND_WON", "ROUND_LOST"}
              /\ gameState' = "ROUND_WON" => (score' > score /\ consecutiveAIScores' = 0)
              /\ gameState' = "ROUND_LOST"
                     => (consecutiveAIScores' > consecutiveAIScores /\ consecutiveSaves' = 0)
              /\ loadingCommentary' /\ commentary' = commentary]_vars
    /\ [](gameState \in {"ROUND_WON", "ROUND_LOST"} => ENABLED proceedToNextOrEnd)
    /\ [](gameState = "ROUND_TRANSITION" => ENABLED nextRound)
    /\ [](gameState = "PLAYING" =>
              ENABLED (\E reported \in FrameReports : RoundReported(reported)))

\* the game is over and no commentary call of its last two rounds has been
\* answered
GameOverCommentaryPending ==
    /\ gameState = "GAME_OVER"
    /\ loadingCommentary
    /\ {c.round : c \in Range(calls)} = {9, 10}

----------------------------------------------------------------------------
(* Round 1 with every input handler. *)

SpecRound1Inputs == InitRound1 /\ [][Next]_vars

\* 0.85^n in 1/LERP_ONE for n = 1..90, each step rounded up to the next unit:
\* GapTable[n] = (GapTable[n - 1] * 85) \div 100 + 1.  From n = 90 on 0.85^n
\* is below one unit and the bound stays at its floor.
GapTable ==
   << 850001, 722501, 614126, 522008, 443707, 377151, 320579, 272493, 231620,
      196878, 167347, 142245, 120909, 102773, 87358, 74255, 63117, 53650,
      45603, 38763, 32949, 28007, 23806, 20236, 17201, 14621, 12428,
      10564, 8980, 7634, 6489, 5516, 4689, 3986, 3389, 2881,
      2449, 2082, 1770, 1505, 1280, 1089, 926, 788, 670,
      570, 485, 413, 352, 300, 256, 218, 186, 159,
      136, 116, 99, 85, 73, 63, 54, 46, 40,
      35, 30, 26, 23, 20, 18, 16, 14, 12,
      11, 10, 9, 8, 7, 6, 6, 6, 6,
      6, 6, 6, 6, 6, 6, 6, 6, 6 >>

GapBound(n) ==
    IF n = 0 THEN LERP_ONE ELSE IF n > 90 THEN GapTable[90] ELSE GapTable[n]

TrailFollowsPuck ==
    /\ [](Len(puckTrail) <= 15)
    /\ [](~hasShot => puckTrail = <<>>)
    /\ [](puckTrail # <<>> => puckTrail[Len(puckTrail)] = puckPos)
    /\ [][(hasShot /\ frameCount' = frameCount + 1)
              => puckTrail' = Append(IF Len(puckTrail) < 15 THEN puckTrail
                                     ELSE Tail(puckTrail), puckPos')]_vars

\* the round has ended with a full trail whose first flight positions were
\* dropped
TrailFullAtOutcome ==
    /\ roundEnded
    /\ Len(puckTrail) = 15
    /\ puckTrail[1].x < U(200)
    /\ puckTrail[15] = puckPos

\* C24: a frame executed while a pointer drag is active leaves the goalie
\* where it was, whatever keys are held; and during a drag the goalie is
\* where a touch event put it.
DragOverridesKeys ==
    /\ [][(isDragging /\ frameCount' = frameCount + 1) => goaliePos' = goaliePos]_vars
    /\ [](isDragging
              => \E touch \in TouchPoints : goaliePos = TouchGoalie(TouchTarget(touch)))

\* frames have run during a drag with the up key held and the goalie below
\* the top of its rectangle
DraggedWithKeyHeld ==
    /\ isDragging
    /\ "KeyW" \in keysPressed
    /\ frameCount >= 5
    /\ goaliePos = Vec(U(124), U(184))

\* C25: as long as the shot has not been released, after every executed
\* frame the puck is 20 units left of the shooter at the shooter's height
\* and its velocity is zero; the velocity becomes nonzero in the frame that
\* releases the shot, and in no frame before.
PuckCarriedUntilRelease ==
    /\ []((~hasShot /\ frameCount > 0)
              => /\ puckPos = Vec(shooterPos.x - U(20), shooterPos.y)
                 /\ puckVel = Vec(0, 0))
    /\ [][(puckVel = Vec(0, 0) /\ puckVel' # Vec(0, 0)) => (~hasShot /\ hasShot')]_vars
    /\ [][(~hasShot /\ hasShot') => puckVel' # Vec(0, 0)]_vars

\* the frame that released the shot has just run: the puck is still at the
\* shooter's stick and has its velocity
JustReleased ==
    /\ hasShot
    /\ puckTrail = <<>>
    /\ puckVel.x < 0
    /\ puckPos = Vec(shooterPos.x - U(20), shooterPos.y)

\* C26: of the outcomes a frame reports, 'glove' is reported only with the
\* stick selector UP in that frame and 'butterfly' only with it DOWN; a
\* success carries one tag of body, stick, glove, butterfly, miss, and the
\* goal carries none.
TagMatchesSelector ==
    [][\A i \in (Len(reports) + 1)..Len(reports') :
           LET o == reports'[i]
           IN  /\ o.saveType = "glove" => stickPos = "UP"
               /\ o.saveType = "butterfly" => stickPos = "DOWN"
               /\ o.success => o.saveType \in {"body", "stick", "glove", "butterfly", "miss"}
               /\ ~o.success => o.saveType = NULL]_vars

\* a frame has reported a glove save
GloveSaveReported ==
    /\ roundEnded
    /\ reports = << Save("glove") >>
    /\ stickPos = "UP"
    /\ lastFrame.fired = << "glove" >>

----------------------------------------------------------------------------
(* The end of the approach in every round: the frames from the shooter's
   last position at or right of x = 250, which it reaches when every
   threshold drawn so far was 250, to the release. *)

\* The number of frames after which the shooter is last at x >= 250.
LastApproachFrame(r) == (U(CANVAS_WIDTH - 100) - U(250)) \div roundConfig(r).shooterSpeed

ShooterYs == {50, 300, 550}
ApproachGoalies == {Vec(U(x), U(y)) : x \in {50, 140}, y \in {50, 300, 550}}

InitApproach ==
    /\ currentRound \in Rounds
    /\ goaliePos \in ApproachGoalies
    /\ stickPos \in Sticks
    /\ shooterPos \in {Vec(U(CANVAS_WIDTH - 100)
                              - LastApproachFrame(currentRound)
                                    * roundConfig(currentRound).shooterSpeed, U(y)) :
                          y \in ShooterYs}
    /\ puckPos = Attached(shooterPos)
    /\ puckVel = Vec(0, 0)
    /\ puckTrail = <<>>
    /\ hasShot = FALSE
    /\ roundEnded = FALSE
    /\ windUpStart = <<>>
    /\ stanceLerp = IF stickPos = "DOWN" THEN LERP_ONE - 6 ELSE 0
    /\ frameCount = LastApproachFrame(currentRound)
    /\ isDragging = FALSE
    /\ keysPressed = {}
    /\ now = Epoch0 + LastApproachFrame(currentRound) * FrameMs
    /\ rafPending = TRUE
    /\ listening = TRUE
    /\ effectStale = FALSE
    /\ instance = 1
    /\ leftOver = {}
    /\ gameState = "PLAYING"
    /\ score = currentRound - 1
    /\ consecutiveAIScores = 0
    /\ hatTrickActive = FALSE
    /\ consecutiveSaves = currentRound - 1
    /\ octopusActive = FALSE
    /\ commentary = ""
    /\ loadingCommentary = FALSE
    /\ timers = 0
    /\ calls = <<>>
    /\ genAI = FALSE
    /\ reports = <<>>
    /\ lastFrame = Collide(puckPos, goaliePos, stickPos)
    /\ shootThreshold = << ShootThreshold(0) >>
    /\ oddDraws = 0
    /\ inputs = 0
    /\ roundStreak = currentRound - 1
    /\ downFrames = IF stickPos = "DOWN" THEN LastApproachFrame(currentRound) ELSE 0
    /\ commentaryCall = <<>>

FrameBeforeRelease == ~hasShot /\ Frame

NextApproach == FrameBeforeRelease

SpecApproach == InitApproach /\ [][NextApproach]_vars

\* C27: in every round 1..10, with the goalie anywhere on the edge of its
\* rectangle and any stick selector, no outcome is reported before the puck
\* is released (roundEnded implies hasShot), and no frame that ends with the
\* puck still at the shooter's stick reports one.
NoOutcomeBeforeRelease ==
    /\ roundEnded => hasShot
    /\ puckPos = Attached(shooterPos) => (lastFrame.reported = <<>> /\ ~roundEnded)

\* round 10 has released with the shooter as far left as it gets and the
\* goalie at the right edge of its rectangle at the shooter's height
ReleasedNextToGoalie ==
    /\ currentRound = 10
    /\ hasShot
    /\ puckPos.x < U(225)
    /\ goaliePos.x = U(140)
    /\ Abs(puckPos.y - goaliePos.y) < U(20)

\* C28: once the round's outcome has been reported, and until the round
\* reset, no step changes the goalie position or the stick selector:
\* keydown, touchstart, touchmove and touchend are ignored.
InputsIgnoredAfterOutcome ==
    [][(roundEnded /\ roundEnded') => (goaliePos' = goaliePos /\ stickPos' = stickPos)]_vars

----------------------------------------------------------------------------
(* The magnet round with a touch that lands on the puck in flight. *)

\* handleTouchStart for a touch whose canvas point (targetX, targetY of
\* updateGoalieFromTouch) is target; clientX and clientY are doubles.
handleTouchStartAt(target) ==
    /\ listening
    /\ inputs < MaxInputs
    /\ inputs' = inputs + 1
    /\ ~isDragging
    /\ isDragging' = TRUE
    /\ stickPos' = TouchStick(target.y)
    /\ goaliePos' = TouchGoalie(target)
    /\ UNCHANGED << stanceLerp, shooterPos, puckPos, puckVel, puckTrail, hasShot,
                    roundEnded, keysPressed, windUpStart, frameCount, hostVars,
                    appVars, serviceVars, reports, lastFrame, shootThreshold, oddDraws,
                    roundStreak, downFrames, commentaryCall >>

\* The puck in flight is inside the goalie's rectangle and the touch lands
\* on it.
TouchStartOnPuck ==
    /\ hasShot /\ ~roundEnded
    /\ IsNum(puckPos)
    /\ TouchGoalie(puckPos) = puckPos
    /\ handleTouchStartAt(puckPos)

NextMagnetDrag ==
    \/ Frame
    \/ MainEffect
    \/ TouchStartOnPuck

SpecMagnetDrag ==
    InitMagnet /\ [][NextMagnetDrag]_vars /\ WF_vars(Frame) /\ WF_vars(MainEffect)

NaNPuckStaysUnresolved ==
    [][(~IsNum(puckPos) /\ ~roundEnded) => (~IsNum(puckPos') /\ ~roundEnded')]_vars

\* C31: in a frame whose magnet branch applies the impulse, the goalie, moved
\* by keys or put there by a touch, is not at the puck's position, so the
\* distance divided by is nonzero; and the puck position and velocity are
\* numbers in every state.
MagnetDistanceNonzero ==
    /\ [][(/\ hasShot /\ frameCount' = frameCount + 1
           /\ MagnetApplies(goaliePos', puckPos, roundConfig(currentRound)))
              => goaliePos' # puckPos]_vars
    /\ [](IsNum(puckPos) /\ IsNum(puckVel))

\* C32: on the result screen of round N, once loadingCommentary is false the
\* commentary shown is a text of the getCommentary call made for round N,
\* in whatever order that call and calls pending from earlier rounds settle.
CommentaryOfTheRound ==
    (gameState \in {"ROUND_WON", "ROUND_LOST"} /\ ~loadingCommentary)
        => /\ commentaryCall # <<>>
           /\ commentaryCall[1].round = currentRound
           /\ commentary \in {getCommentary(commentaryCall[1], answer).text :
                                  answer \in Answers}

====
